---------------------------- MODULE Spec2Model ----------------------------
(***************************************************************************)
(* The two Streamlit dashboards of the repository, app.py and editapp.py,  *)
(* as one state machine.  A session runs one of the two scripts; every     *)
(* user interaction changes one widget and reruns the whole script from    *)
(* top to bottom.  The only state a rerun inherits is the widget values,   *)
(* st.session_state.last_status (editapp.py) and numpy's global generator. *)
(*                                                                         *)
(* Numbers.  The scripts compute in IEEE doubles.  Here a percentage is    *)
(* an integer number of thousandths: the floor of 1000 times the value.    *)
(* 1.2 ** n is kept as an exact rational (12^n / 10^n, or 5^m / 6^m for    *)
(* n = -m < 0), so every product is exact before the floor is taken.       *)
(* A double differs from the exact value by a few units in the last        *)
(* place; the floor of 1000 times the value can differ only when the       *)
(* exact value is a whole number of thousandths, and then only by being    *)
(* one lower (app.py, 23 degrees, 9 years: 49.99999999999999 for an exact  *)
(* 50).  For current_health, the value the thresholds are compared with,   *)
(* a run therefore draws fp_round from {0, 1} at such a point.             *)
(***************************************************************************)
EXTENDS Integers, Sequences, FiniteSets

VARIABLES
    variant,           \* which script the session runs: "app" or "editapp"
    temp_input,        \* slider "Ambient Temperature"
    time_projection,   \* slider "Project forward"
    replacement_cost,  \* number_input "Cost per block"
    selected_block,    \* selectbox "Select Target Block" (editapp.py)
    last_status,       \* st.session_state.last_status, Absent until set
    rng,               \* state of numpy's global generator
    rng_used,          \* the generator state the latest run started from
    rendered,          \* the script has run at least once in this session
    prev_status,       \* last_status as the latest run found it
    fp_round,          \* the latest run's rounding of current_health (0 or 1)
    current_health,    \* outputs of the latest run, thousandths of a percent
    status,
    toast,
    audio,
    total_risk,
    gauge_value,
    health_curve,
    grid_health,
    grid_data,
    history            \* SpecSeq only: <<status, notified>> of each run so far

vars == <<variant, temp_input, time_projection, replacement_cost,
          selected_block, last_status, rng, rng_used, rendered, prev_status,
          fp_round,
          current_health, status, toast, audio, total_risk, gauge_value,
          health_curve, grid_health, grid_data, history>>

-----------------------------------------------------------------------------
(* Program constants *)

TempMin == 20
TempMax == 40
TempDefault == 25
BaseTemp == 25
YearMin == 1
YearMaxApp == 9
YearMaxEdit == 10
CostDefault == 500
NumBlocks == 30
BaseRateApp == 8
BaseRateEdit == 6
GridRate == 8
CurveRate == 2
CurvePoints == 25
CriticalBelow == 50
WarningBelowApp == 75
WarningBelowEdit == 60
RiskBlocks == 31
GridRows == 6
GridCols == 5
MonthsLo == 4
MonthsHi == 7

(* Bounds of the model *)

\* costs tried besides 0 and the default: 1..MaxCost
MaxCost == 0
\* blocks the user picks in the selector: Block_1 .. Block_MaxBlock
MaxBlock == 2
\* number of states of the generator; a draw is one of RngStates values
RngStates == 2
\* runs recorded in history (SpecSeq)
MaxHistory == 5

Milli == 10 ^ 3
Pct(n) == n * Milli

Absent == "ABSENT"
NoToast == [kind |-> "NONE", months |-> 0]

Variants == {"app", "editapp"}
Temps == TempMin..TempMax
Years(v) == YearMin..(IF v = "app" THEN YearMaxApp ELSE YearMaxEdit)
Costs == {0, CostDefault} \cup (1..MaxCost)
available_blocks == 1..NumBlocks

Max(a, b) == IF a >= b THEN a ELSE b
Min(a, b) == IF a <= b THEN a ELSE b

-----------------------------------------------------------------------------
(* Exact arithmetic for k * 1.2 ** n *)

\* digits (least significant first) of ds * k + carry
RECURSIVE MulDigits(_, _, _)
MulDigits(ds, k, carry) ==
    IF ds = <<>>
    THEN IF carry = 0 THEN <<>>
         ELSE <<carry % 10>> \o MulDigits(<<>>, k, carry \div 10)
    ELSE LET p == Head(ds) * k + carry
         IN  <<p % 10>> \o MulDigits(Tail(ds), k, p \div 10)

RECURSIVE DigitsValue(_)
DigitsValue(ds) ==
    IF ds = <<>> THEN 0 ELSE Head(ds) + 10 * DigitsValue(Tail(ds))

RECURSIVE IntPow(_, _)
IntPow(b, e) == IF e = 0 THEN 1 ELSE b * IntPow(b, e - 1)

\* digits of 12^n, n = 0 .. TempMax - BaseTemp
Pow12Digits[n \in 0..(TempMax - BaseTemp)] ==
    IF n = 0 THEN <<1>> ELSE MulDigits(Pow12Digits[n - 1], 12, 0)

\* 1.2 ** (temp_input - 25), as an exact rational
degradation_factor(t) ==
    LET n == t - BaseTemp
    IN  IF n >= 0
        THEN [exp |-> n, digits |-> Pow12Digits[n], num |-> 0, den |-> 1]
        ELSE [exp |-> n, digits |-> <<>>,
              num |-> IntPow(5, -n), den |-> IntPow(6, -n)]

\* k * df for an integer k >= 0: the least integer >= the product, and
\* whether the product is that integer
Times(k, df) ==
    IF df.exp >= 0
    THEN LET ds   == MulDigits(df.digits, k, 0)
             low  == SubSeq(ds, 1, Min(df.exp, Len(ds)))
             high == SubSeq(ds, df.exp + 1, Len(ds))
             ex   == \A i \in 1..Len(low) : low[i] = 0
         IN  [ceil |-> DigitsValue(high) + (IF ex THEN 0 ELSE 1), exact |-> ex]
    ELSE LET p  == k * df.num
             ex == p % df.den = 0
         IN  [ceil |-> (p \div df.den) + (IF ex THEN 0 ELSE 1), exact |-> ex]

-----------------------------------------------------------------------------
(* The calculations both scripts share (app.py 20-22, editapp.py 24-26)    *)

\* time_projection * rate * degradation_factor, in thousandths: the least
\* integer >= the product, and whether the product is that integer
Loss(rate, t, y) == Times(Pct(1) * y * rate, degradation_factor(t))

\* Loss, computed once for every slider position
LossMemo ==
    [rate \in {BaseRateApp, BaseRateEdit} |->
        [t \in Temps |-> [y \in YearMin..YearMaxEdit |-> Loss(rate, t, y)]]]

\* the roundings a double may give 100 - years * rate * factor: 0 (the
\* exact floor) or, where the exact value is a whole number of thousandths
\* inside the clamp, 1 (one unit in the last place below it)
FpRounds(rate, t, y) ==
    LET loss == LossMemo[rate][t][y]
    IN  IF loss.exact /\ loss.ceil < Pct(100) THEN {0, 1} ELSE {0}

\* Health without the clamp of line 22 / 26
HealthUnclamped(rate, t, y, rd) ==
    Pct(100) - LossMemo[rate][t][y].ceil - rd

\* max(0, min(100, 100 - (time_projection * rate * degradation_factor)))
Health(rate, t, y, rd) ==
    Max(0, Min(Pct(100), Pct(100) - LossMemo[rate][t][y].ceil - rd))

\* TotalRisk scaled by the health instead of the health lost
TotalRiskOfHealth(h, c) == h * RiskBlocks * c

\* (100 - current_health) * 31 * (replacement_cost / 100), in units of
\* 1/100000 rupee: thousandths of a percent times hundredths of the cost
TotalRisk(h, c) == (Pct(100) - h) * RiskBlocks * c

\* value = 100 - current_health
GaugeValue(h) == Pct(100) - h

\* months = np.arange(0, 25); 100 - (months * 2 * degradation_factor)
CurveOf(t) ==
    [m \in 0..(CurvePoints - 1) |->
        Pct(100) - Times(Pct(1) * m * CurveRate, degradation_factor(t)).ceil]

CurveMemo == [t \in Temps |-> CurveOf(t)]

HealthCurve(t) == CurveMemo[t]

\* np.random.uniform(0.8, 1.2) in generator state x, in thousandths
Uniform(x) == 800 + (400 * x) \div (RngStates - 1)

\* the generator after n draws
Advance(r, n) == (r + n) % RngStates

\* max(0, 100 - (time_projection * 8 * degradation_factor
\*               * individual_variance)), the variance j in thousandths
BlockHealth(t, y, j) ==
    Max(0, Pct(100) - Times(y * GridRate * j, degradation_factor(t)).ceil)

\* BlockHealth, computed once for every slider position and draw
BlockMemo ==
    [t \in Temps |->
        [y \in YearMin..YearMaxEdit |->
            [x \in 0..(RngStates - 1) |-> BlockHealth(t, y, Uniform(x))]]]

\* for i in range(30): grid_health.append(...), the generator in state r
\* at the first draw
GridHealth(t, y, r) ==
    [i \in 1..NumBlocks |-> BlockMemo[t][y][Advance(r, i - 1)]]

\* GridData filled column by column (order='F')
GridDataColumnMajor(gh) ==
    [r \in 1..GridRows |-> [c \in 1..GridCols |-> gh[(c - 1) * GridRows + r]]]

\* np.array(grid_health).reshape(6, 5): row-major
GridData(gh) ==
    [r \in 1..GridRows |-> [c \in 1..GridCols |-> gh[(r - 1) * GridCols + c]]]

\* row 3 of the page: the list and the array made of it
Heatmap(t, y, r) ==
    LET gh == GridHealth(t, y, r)
    IN  [grid_health |-> gh, grid_data |-> GridData(gh)]

\* Heatmap, computed once for every slider position and generator state
HeatmapMemo ==
    [t \in Temps |->
        [y \in YearMin..YearMaxEdit |->
            [r \in 0..(RngStates - 1) |-> Heatmap(t, y, r)]]]

-----------------------------------------------------------------------------
(* app.py *)

\* StatusApp with the WARNING threshold of editapp.py
StatusAppThreshold60(h) ==
    IF h < Pct(CriticalBelow) THEN "CRITICAL"
    ELSE IF h < Pct(WarningBelowEdit) THEN "WARNING"
    ELSE "HEALTHY"

\* "CRITICAL" if current_health < 50 else "WARNING" if current_health < 75
\* else "HEALTHY"
StatusApp(h) ==
    IF h < Pct(CriticalBelow) THEN "CRITICAL"
    ELSE IF h < Pct(WarningBelowApp) THEN "WARNING"
    ELSE "HEALTHY"

\* one run of app.py
AppScript(ls, t, y, c, r, rd) ==
    LET h  == Health(BaseRateApp, t, y, rd)
        hm == HeatmapMemo[t][y][r]
    IN  [current_health |-> h,
         status         |-> StatusApp(h),
         toast          |-> NoToast,
         audio          |-> FALSE,
         last_status    |-> ls,
         total_risk     |-> TotalRisk(h, c),
         gauge_value    |-> GaugeValue(h),
         health_curve   |-> HealthCurve(t),
         grid_health    |-> hm.grid_health,
         grid_data      |-> hm.grid_data,
         rng            |-> Advance(r, NumBlocks)]

-----------------------------------------------------------------------------
(* editapp.py *)

\* Alert with the WARNING branch guarded by the CRITICAL branch's test
AlertCopiedGuard(ls, h, m) ==
    IF h < Pct(CriticalBelow)
    THEN IF ls # "CRITICAL"
         THEN [status |-> "CRITICAL",
               toast  |-> [kind |-> "CRITICAL", months |-> 0],
               audio  |-> TRUE, last_status |-> "CRITICAL"]
         ELSE [status |-> "CRITICAL", toast |-> NoToast,
               audio  |-> FALSE, last_status |-> ls]
    ELSE IF h < Pct(WarningBelowEdit)
    THEN IF ls # "CRITICAL"
         THEN [status |-> "WARNING",
               toast  |-> [kind |-> "WARNING", months |-> m],
               audio  |-> FALSE, last_status |-> "WARNING"]
         ELSE [status |-> "WARNING", toast |-> NoToast,
               audio  |-> FALSE, last_status |-> "WARNING"]
    ELSE [status |-> "HEALTHY", toast |-> NoToast,
          audio  |-> FALSE, last_status |-> "HEALTHY"]

\* Alert without the once-per-change guards
AlertUnguarded(ls, h, m) ==
    IF h < Pct(CriticalBelow)
    THEN [status |-> "CRITICAL",
          toast  |-> [kind |-> "CRITICAL", months |-> 0],
          audio  |-> TRUE, last_status |-> "CRITICAL"]
    ELSE IF h < Pct(WarningBelowEdit)
    THEN [status |-> "WARNING",
          toast  |-> [kind |-> "WARNING", months |-> m],
          audio  |-> FALSE, last_status |-> "WARNING"]
    ELSE [status |-> "HEALTHY", toast |-> NoToast,
          audio  |-> FALSE, last_status |-> "HEALTHY"]

\* Alert with the audio tag written outside the guard
AlertBeepWheneverCritical(ls, h, m) ==
    IF h < Pct(CriticalBelow)
    THEN IF ls # "CRITICAL"
         THEN [status |-> "CRITICAL",
               toast  |-> [kind |-> "CRITICAL", months |-> 0],
               audio  |-> TRUE, last_status |-> "CRITICAL"]
         ELSE [status |-> "CRITICAL", toast |-> NoToast,
               audio  |-> TRUE, last_status |-> ls]
    ELSE IF h < Pct(WarningBelowEdit)
    THEN IF ls # "WARNING"
         THEN [status |-> "WARNING",
               toast  |-> [kind |-> "WARNING", months |-> m],
               audio  |-> FALSE, last_status |-> "WARNING"]
         ELSE [status |-> "WARNING", toast |-> NoToast,
               audio  |-> FALSE, last_status |-> ls]
    ELSE [status |-> "HEALTHY", toast |-> NoToast,
          audio  |-> FALSE, last_status |-> "HEALTHY"]

\* Alert without line 66: HEALTHY is not recorded
AlertHealthyNotRecorded(ls, h, m) ==
    IF h < Pct(CriticalBelow)
    THEN IF ls # "CRITICAL"
         THEN [status |-> "CRITICAL",
               toast  |-> [kind |-> "CRITICAL", months |-> 0],
               audio  |-> TRUE, last_status |-> "CRITICAL"]
         ELSE [status |-> "CRITICAL", toast |-> NoToast,
               audio  |-> FALSE, last_status |-> ls]
    ELSE IF h < Pct(WarningBelowEdit)
    THEN IF ls # "WARNING"
         THEN [status |-> "WARNING",
               toast  |-> [kind |-> "WARNING", months |-> m],
               audio  |-> FALSE, last_status |-> "WARNING"]
         ELSE [status |-> "WARNING", toast |-> NoToast,
               audio  |-> FALSE, last_status |-> ls]
    ELSE [status |-> "HEALTHY", toast |-> NoToast,
          audio  |-> FALSE, last_status |-> ls]

\* the if / elif / else of editapp.py 39-66: the status, what is emitted and
\* what session_state.last_status is afterwards
Alert(ls, h, m) ==
    IF h < Pct(CriticalBelow)
    THEN IF ls # "CRITICAL"
         THEN [status |-> "CRITICAL",
               toast  |-> [kind |-> "CRITICAL", months |-> 0],
               audio  |-> TRUE, last_status |-> "CRITICAL"]
         ELSE [status |-> "CRITICAL", toast |-> NoToast,
               audio  |-> FALSE, last_status |-> ls]
    ELSE IF h < Pct(WarningBelowEdit)
    THEN IF ls # "WARNING"
         THEN [status |-> "WARNING",
               toast  |-> [kind |-> "WARNING", months |-> m],
               audio  |-> FALSE, last_status |-> "WARNING"]
         ELSE [status |-> "WARNING", toast |-> NoToast,
               audio  |-> FALSE, last_status |-> ls]
    ELSE [status |-> "HEALTHY", toast |-> NoToast,
          audio  |-> FALSE, last_status |-> "HEALTHY"]

\* the values random.randint(4, 7) may return in a run, {0} when the run
\* does not reach the call
MonthDraws(ls, h) ==
    IF h >= Pct(CriticalBelow) /\ h < Pct(WarningBelowEdit) /\ ls # "WARNING"
    THEN MonthsLo..MonthsHi
    ELSE {0}

\* EditScript with the selector wired in: the health shown is that of the
\* selected block of the grid
EditScriptOfBlock(ls, sb, t, y, c, r, m, rd) ==
    LET hm == HeatmapMemo[t][y][r]
        h  == hm.grid_health[sb]
        a  == Alert(ls, h, m)
    IN  [current_health |-> h,
         status         |-> a.status,
         toast          |-> a.toast,
         audio          |-> a.audio,
         last_status    |-> a.last_status,
         total_risk     |-> TotalRisk(h, c),
         gauge_value    |-> GaugeValue(h),
         health_curve   |-> HealthCurve(t),
         grid_health    |-> hm.grid_health,
         grid_data      |-> hm.grid_data,
         rng            |-> Advance(r, NumBlocks)]

\* one run of editapp.py; sb is selected_block
EditScript(ls, sb, t, y, c, r, m, rd) ==
    LET h  == Health(BaseRateEdit, t, y, rd)
        a  == Alert(ls, h, m)
        hm == HeatmapMemo[t][y][r]
    IN  [current_health |-> h,
         status         |-> a.status,
         toast          |-> a.toast,
         audio          |-> a.audio,
         last_status    |-> a.last_status,
         total_risk     |-> TotalRisk(h, c),
         gauge_value    |-> GaugeValue(h),
         health_curve   |-> HealthCurve(t),
         grid_health    |-> hm.grid_health,
         grid_data      |-> hm.grid_data,
         rng            |-> Advance(r, NumBlocks)]

-----------------------------------------------------------------------------
(* The session *)

BaseRate(v) == IF v = "app" THEN BaseRateApp ELSE BaseRateEdit

Script(v, ls, sb, t, y, c, r, m, rd) ==
    IF v = "app" THEN AppScript(ls, t, y, c, r, rd)
    ELSE EditScript(ls, sb, t, y, c, r, m, rd)

\* a new session: the widgets at their defaults, nothing in session_state,
\* the process-wide generator in any state, the script not yet run
Init ==
    /\ variant \in Variants
    /\ temp_input = TempDefault
    /\ time_projection = YearMin
    /\ replacement_cost = CostDefault
    /\ selected_block = 1
    /\ last_status = Absent
    /\ rng \in 0..(RngStates - 1)
    /\ rng_used = rng
    /\ rendered = FALSE
    /\ prev_status = Absent
    /\ fp_round = 0
    /\ current_health = 0
    /\ status = "NONE"
    /\ toast = NoToast
    /\ audio = FALSE
    /\ total_risk = 0
    /\ gauge_value = 0
    /\ health_curve = <<>>
    /\ grid_health = <<>>
    /\ grid_data = <<>>
    /\ history = <<>>

\* one top-to-bottom run of the script with the widgets at t, y, c, sb
Render(t, y, c, sb) ==
    \E rd \in FpRounds(BaseRate(variant), t, y) :
      \E m \in (IF variant = "app" THEN {0}
                ELSE MonthDraws(last_status,
                                Health(BaseRateEdit, t, y, rd))) :
        \E o \in {Script(variant, last_status, sb, t, y, c, rng, m, rd)} :
            /\ temp_input' = t
            /\ time_projection' = y
            /\ replacement_cost' = c
            /\ selected_block' = sb
            /\ rendered' = TRUE
            /\ prev_status' = last_status
            /\ fp_round' = rd
            /\ last_status' = o.last_status
            /\ rng' = o.rng
            /\ rng_used' = rng
            /\ current_health' = o.current_health
            /\ status' = o.status
            /\ toast' = o.toast
            /\ audio' = o.audio
            /\ total_risk' = o.total_risk
            /\ gauge_value' = o.gauge_value
            /\ health_curve' = o.health_curve
            /\ grid_health' = o.grid_health
            /\ grid_data' = o.grid_data
            /\ UNCHANGED variant

\* the page is opened: the first run
Load ==
    /\ ~rendered
    /\ Render(temp_input, time_projection, replacement_cost, selected_block)

\* a rerun with no widget changed (the "Rerun" command of the framework)
Rerun ==
    /\ rendered
    /\ Render(temp_input, time_projection, replacement_cost, selected_block)

ChangeTemp ==
    /\ rendered
    /\ \E t \in Temps \ {temp_input} :
         Render(t, time_projection, replacement_cost, selected_block)

ChangeYears ==
    /\ rendered
    /\ \E y \in Years(variant) \ {time_projection} :
         Render(temp_input, y, replacement_cost, selected_block)

ChangeCost ==
    /\ rendered
    /\ \E c \in Costs \ {replacement_cost} :
         Render(temp_input, time_projection, c, selected_block)

SelectBlock ==
    /\ rendered
    /\ variant = "editapp"
    /\ \E b \in (available_blocks \cap (1..MaxBlock)) \ {selected_block} :
         Render(temp_input, time_projection, replacement_cost, b)

\* numpy's generator is global to the server process: a run of another
\* session draws from it between two runs of this one
OtherDraw ==
    /\ rng' = Advance(rng, 1)
    /\ UNCHANGED <<variant, temp_input, time_projection, replacement_cost,
                   selected_block, last_status, rng_used, rendered,
                   prev_status, fp_round, current_health, status, toast, audio,
                   total_risk, gauge_value, health_curve, grid_health,
                   grid_data, history>>

Next ==
    \/ Load /\ UNCHANGED history
    \/ Rerun /\ UNCHANGED history
    \/ ChangeTemp /\ UNCHANGED history
    \/ ChangeYears /\ UNCHANGED history
    \/ ChangeCost /\ UNCHANGED history
    \/ SelectBlock /\ UNCHANGED history
    \/ OtherDraw

Spec == Init /\ [][Next]_vars

-----------------------------------------------------------------------------
(* The first MaxHistory runs of an editapp.py session, each recorded as     *)
(* <<status, whether a toast was emitted>>                                 *)

Record ==
    history' = Append(history, <<status', toast'.kind # "NONE">>)

InitSeq == Init /\ variant = "editapp"

Recording == Len(history) < MaxHistory

NextSeq ==
    \/ Recording /\ Load /\ Record
    \/ Recording /\ Rerun /\ Record
    \/ Recording /\ ChangeYears /\ Record

SpecSeq == InitSeq /\ [][NextSeq]_vars

-----------------------------------------------------------------------------
(* Properties *)

Edit == rendered /\ variant = "editapp"
Notified == toast.kind # "NONE"
Alarm == {"WARNING", "CRITICAL"}

\* C1 as stated: in editapp.py a run whose status differs from the status
\* recorded before it emits a notification, whatever the two statuses are.
C1_EveryChangeNotifies ==
    Edit /\ status # prev_status => Notified

\* C1 as amended: in editapp.py a run whose status is WARNING or CRITICAL and
\* differs from the status recorded before it (absent included) emits the
\* notification of that status.
C1_AlarmChangeNotifies ==
    Edit /\ status \in Alarm /\ status # prev_status => toast.kind = status

C1_Witness ==
    Edit /\ status = "WARNING" /\ prev_status = "CRITICAL" /\ Notified

\* C2: in editapp.py a run whose status equals the status recorded before it
\* emits no notification and no audio cue; the status recorded before a run
\* is the status of the run before, so two consecutive runs with the same
\* status never both notify.
C2_RepeatIsSilent ==
    Edit /\ status = prev_status => ~Notified /\ ~audio

C2_Witness ==
    Edit /\ status = "CRITICAL" /\ prev_status = "CRITICAL" /\ ~Notified

\* C3: in an editapp.py session whose first five runs have the statuses
\* HEALTHY, WARNING, WARNING, CRITICAL, WARNING, notifications are emitted
\* at runs 1, 3 and 4 (counted from 0) and at no other; and with nothing
\* recorded a run whose status is WARNING or CRITICAL notifies.
AlertSequence == <<"HEALTHY", "WARNING", "WARNING", "CRITICAL", "WARNING">>

StatusesOf(h) == [i \in 1..Len(h) |-> h[i][1]]
FiredIn(h) == {i - 1 : i \in {j \in 1..Len(h) : h[j][2]}}

C3_SequenceNotifies ==
    /\ Len(history) >= Len(AlertSequence)
       /\ StatusesOf(SubSeq(history, 1, Len(AlertSequence))) = AlertSequence
       => FiredIn(SubSeq(history, 1, Len(AlertSequence))) = {1, 3, 4}
    /\ Len(history) >= 1 /\ history[1][1] \in Alarm => history[1][2]
    /\ \A p \in 0..100 : \A m \in MonthsLo..MonthsHi :
         Alert(Absent, Pct(p), m).status \in Alarm
         => Alert(Absent, Pct(p), m).toast.kind # "NONE"

C3_Witness ==
    /\ Len(history) >= Len(AlertSequence)
    /\ StatusesOf(SubSeq(history, 1, Len(AlertSequence))) = AlertSequence
    /\ FiredIn(SubSeq(history, 1, Len(AlertSequence))) = {1, 3, 4}

\* C4: in editapp.py the audio cue is emitted in a run exactly when the
\* run's status is CRITICAL and the status recorded before it is not.
C4_AudioOnlyOnEnteringCritical ==
    Edit => (audio <=> status = "CRITICAL" /\ prev_status # "CRITICAL")

C4_Witness ==
    Edit /\ audio /\ status = "CRITICAL" /\ prev_status = "WARNING"

\* C5: in both scripts, at every slider position, the clamped health lies
\* in [0, 100], and so does the gauge value 100 - health.
C5_HealthClamped ==
    rendered =>
        /\ 0 <= current_health /\ current_health <= Pct(100)
        /\ 0 <= gauge_value /\ gauge_value <= Pct(100)
        /\ gauge_value = Pct(100) - current_health

C5_Witness ==
    rendered /\ current_health = 0 /\ gauge_value = Pct(100)
    /\ temp_input = TempMax

\* C6: the status is CRITICAL iff health < 50, WARNING iff 50 <= health <
\* threshold, HEALTHY otherwise, the threshold 75 in app.py and 60 in
\* editapp.py; every run assigns exactly one of the three.
C6_StatusThresholds ==
    rendered =>
        LET th == IF variant = "app" THEN Pct(75) ELSE Pct(60)
        IN  /\ status \in {"CRITICAL", "WARNING", "HEALTHY"}
            /\ status = "CRITICAL" <=> current_health < Pct(50)
            /\ status = "WARNING"
               <=> Pct(50) <= current_health /\ current_health < th
            /\ status = "HEALTHY" <=> current_health >= th

C6_Witness ==
    /\ rendered /\ variant = "app" /\ status = "WARNING"
    /\ current_health >= Pct(60) /\ current_health < Pct(75)

\* C7 as stated: at every in-bounds input, cost 0 included, the risk value
\* is 0 iff the health is 100.
C7_RiskZeroIffPristine ==
    rendered => (total_risk = 0 <=> current_health = Pct(100))

\* C7 as amended: at every in-bounds input the risk value is 0 iff the
\* health is 100 or the replacement cost is 0.
C7_RiskZeroIffPristineOrFree ==
    rendered =>
        (total_risk = 0 <=> current_health = Pct(100) \/ replacement_cost = 0)

C7_Witness ==
    /\ rendered /\ replacement_cost = 0 /\ total_risk = 0
    /\ current_health < Pct(100)

\* C8: in both scripts the grid holds exactly 30 values, each >= 0, and the
\* k-th generated value (k = 0..29) is at row k div 5, column k mod 5 of a
\* 6 by 5 array.
C8_GridRowMajor ==
    rendered =>
        /\ DOMAIN grid_health = 1..30
        /\ \A i \in 1..30 : grid_health[i] >= 0
        /\ DOMAIN grid_data = 1..6
        /\ \A r \in 1..6 : DOMAIN grid_data[r] = 1..5
        /\ \A k \in 0..29 :
             grid_data[(k \div 5) + 1][(k % 5) + 1] = grid_health[k + 1]

C8_Witness ==
    /\ rendered
    /\ \E i, j \in 1..30 : grid_health[i] = 0 /\ grid_health[j] > 0
    /\ grid_data[1][1] # grid_data[2][1]

\* what the latest run showed and left behind
Observed ==
    [current_health |-> current_health,
     status         |-> status,
     toast          |-> toast,
     audio          |-> audio,
     last_status    |-> last_status,
     total_risk     |-> total_risk,
     gauge_value    |-> gauge_value,
     health_curve   |-> health_curve,
     grid_health    |-> grid_health,
     grid_data      |-> grid_data,
     rng            |-> Advance(rng_used, NumBlocks)]

\* C9: in editapp.py the selected block has no observable effect: the
\* latest run, had it been made with any other of the 30 blocks selected
\* and the same recorded status, temperature, years, cost and random
\* draws, would have shown and recorded the same.
C9_BlockHasNoEffect ==
    Edit =>
        \A b \in available_blocks :
            EditScript(prev_status, b, temp_input, time_projection,
                       replacement_cost, rng_used, toast.months, fp_round)
            = Observed

C9_Witness ==
    /\ Edit /\ selected_block # 1
    /\ status = "WARNING" /\ Notified
    /\ \E i, j \in 1..30 : grid_health[i] # grid_health[j]

\* C10: in editapp.py, after every run, the status recorded in
\* session_state is the status of that run, HEALTHY included.
C10_RecordedIsComputed ==
    Edit => last_status = status

C10_Witness ==
    /\ Edit /\ status = "HEALTHY" /\ last_status = "HEALTHY"
    /\ prev_status = "CRITICAL" /\ ~Notified

=============================================================================
